---- MODULE Spec2Model ----
(***************************************************************************)
(* Kanban board client: the task state container (KanbanProvider in        *)
(* contexts/KanbanContext.tsx and its successor KanbanProvider +           *)
(* useKanbanTasks), the session store (AuthProvider) and the column's      *)
(* drag-and-drop handlers, together with the remote task table they talk   *)
(* to.  Remote calls are asynchronous: a request is sent, the store        *)
(* answers it, and the answer is handled by the continuation after the     *)
(* await; answers of different requests may be handled in any order.       *)
(***************************************************************************)
EXTENDS Integers, Sequences, FiniteSets

\* ------------------------------------------------------------------ bounds
\* number of row ids the remote task table can hand out
MaxRows == 2
\* number of remote requests of the container that may be pending at once
MaxInflight == 2
\* number of remote requests the container sends in one run
MaxCalls == 3
\* a run of the drag-and-drop handlers starts no drag once this many remote
\* requests have been sent
MaxDragCalls == 2
\* number of fetchBoard runs of the Board page that may be pending at once
MaxBoardFetch == 2

\* --------------------------------------------------------------- constants
\* the four column ids, in the order of the columns array
ColumnIds == <<"backlog", "todo", "in-progress", "done">>

TaskStatus == {"backlog", "todo", "in-progress", "done"}

\* the status column of the remote table is free text: other writers may
\* store a value that is no TaskStatus
RowStatus == TaskStatus \cup {"archived"}

Users == {"u1"}

NoUser == "nouser"

Boards == {"b1", "b2"}

NoBoard == "noboard"

\* title stands for the editable fields of a task (title, description,
\* priority, due date, owner), which the code always writes together
Titles == {"t1", "t2"}

\* statuses the runs pass to addTask and updateTaskStatus/moveTask
InputStatus == {"todo", "done"}

\* statuses of the rows other clients insert
ExternalStatus == {"archived", "todo"}

\* the two implementations of the container found in the repository
Impls == {"context", "hook"}

VARIABLES
  impl,           \* which container implementation is mounted
  user,           \* useAuth().user as seen by the container / AuthProvider.user
  boardId,        \* currentBoardId of the provider
  effectPending,  \* the [user, currentBoardId] effect is scheduled
  columns,        \* useState<KanbanColumn[]>
  loading,        \* useState(false) of the container
  toast,          \* title of the toast() the last handler run raised ("" when none)
  store,          \* remote tasks table: id -> row
  inflight,       \* pending remote requests of the container
  calls,          \* number of remote requests the container has sent
  last,           \* the handler run completed last, with the rows or row id it handled
  dataTransfer,   \* the drag in progress and its e.dataTransfer 'taskId' data
  dragOverIndex,  \* per column: useState<number | null>(null), null as <<>>, k as <<k>>
  lastDrop,       \* arguments of the last moveTask call made by handleDrop
  session,        \* AuthProvider.session
  authLoading,    \* AuthProvider.loading
  isMounted,      \* AuthProvider.isMounted.current
  backendSession, \* the session the auth backend currently holds
  getSession,     \* state of the initial getSession() promise
  lastEvent,      \* most recent auth event delivered to the listener
  route,          \* location.pathname of the router, as a tuple of its segments
  page,           \* the page component mounted and the deps its effect last ran with
  checkUser,      \* the Auth page's pending getSession() of checkUser
  board,          \* Board page: useState<any>(null), the id of the loaded board
  boardLoading,   \* Board page: useState(true)
  isOwner,        \* Board page: useState(false)
  boardFetch,     \* Board page: pending fetchBoard runs
  chain,          \* the automatic redirects followed since the last other event
  authForm        \* Auth page: useState(false) loading and the pending signUp / signIn call

kanbanVars == <<impl, boardId, effectPending, columns, loading, store, inflight, calls>>

dragVars == <<dataTransfer, dragOverIndex, lastDrop>>

authVars == <<session, authLoading, isMounted, backendSession, getSession, lastEvent>>

pageVars == <<route, page, checkUser, board, boardLoading, isOwner, boardFetch, chain, authForm>>

vars == <<kanbanVars, dragVars, authVars, pageVars, user, toast, last>>

\* ----------------------------------------------------------------- helpers
Range(s) == {s[i] : i \in 1..Len(s)}

\* all orderings of a finite set
Perms(S) == {p \in [1..Cardinality(S) -> S] : \A i, j \in 1..Cardinality(S) : p[i] = p[j] => i = j}

\* task.id.toString(): row ids are kept as strings on the client; a string is
\* a tuple here, the empty string the empty tuple
toString(n) == <<"id", n>>

\* parseInt(id) (useKanbanTasks) / the uuid itself (KanbanContext.tsx)
ParseInt(id) == id[2]

NoRow == [state |-> "free", status |-> "", title |-> "", user |-> NoUser, board |-> NoBoard]

\* ids are handed out once (serial / uuid): a deleted row keeps its slot
NextId == Cardinality({n \in 1..MaxRows : store[n].state # "free"}) + 1

\* a row as the query API returns it
RowData(n) == [id |-> n, status |-> store[n].status, title |-> store[n].title]

mapTaskFromSupabase(task) == [id |-> toString(task.id), status |-> task.status, title |-> task.title]

DefaultColumns == [i \in 1..4 |-> [id |-> ColumnIds[i], tasks |-> <<>>]]

\* prevColumns.flatMap(col => col.tasks)
AllTasks(cols) == cols[1].tasks \o cols[2].tasks \o cols[3].tasks \o cols[4].tasks

\* data.filter(task => task.status === s).map(mapTaskFromSupabase)
FilterStatus(data, s) ==
  LET sel == SelectSeq(data, LAMBDA r : r.status = s)
  IN [i \in 1..Len(sel) |-> mapTaskFromSupabase(sel[i])]

\* grouping that puts a row of no known status into the first column
GroupByStatus_Fallback(data) ==
  [i \in 1..4 |-> [id |-> ColumnIds[i],
                   tasks |-> IF i = 1
                             THEN LET sel == SelectSeq(data, LAMBDA r : r.status \notin TaskStatus \/ r.status = ColumnIds[1])
                                  IN [k \in 1..Len(sel) |-> mapTaskFromSupabase(sel[k])]
                             ELSE FilterStatus(data, ColumnIds[i])]]

\* "Group tasks by status" + setColumns([...]) of fetchTasks
GroupByStatus(data) == [i \in 1..4 |-> [id |-> ColumnIds[i], tasks |-> FilterStatus(data, ColumnIds[i])]]

\* addTask that puts the new task in front of the column's tasks
AppendTask_Prepend(prevColumns, status, newTask) ==
  [i \in 1..4 |-> IF prevColumns[i].id = status
                  THEN [prevColumns[i] EXCEPT !.tasks = <<newTask>> \o @]
                  ELSE prevColumns[i]]

\* setColumns updater of addTask
AppendTask(prevColumns, status, newTask) ==
  [i \in 1..4 |-> IF prevColumns[i].id = status
                  THEN [prevColumns[i] EXCEPT !.tasks = Append(@, newTask)]
                  ELSE prevColumns[i]]

\* setColumns updater of updateTaskStatus
MoveToStatus(prevColumns, id, newStatus) ==
  LET removed == [i \in 1..4 |-> [prevColumns[i] EXCEPT !.tasks = SelectSeq(@, LAMBDA t : t.id # id)]]
      found == SelectSeq(AllTasks(prevColumns), LAMBDA t : t.id = id)
  IN [i \in 1..4 |-> IF removed[i].id = newStatus /\ Len(found) > 0
                     THEN [removed[i] EXCEPT !.tasks = Append(@, [found[1] EXCEPT !.status = newStatus])]
                     ELSE removed[i]]

\* updateTaskDetails that writes the new details into every task
EditTask_EveryTask(prevColumns, id, title) ==
  [i \in 1..4 |-> [prevColumns[i] EXCEPT !.tasks =
      [k \in 1..Len(@) |-> [@[k] EXCEPT !.title = title]]]]

\* setColumns updater of updateTaskDetails
EditTask(prevColumns, id, title) ==
  [i \in 1..4 |-> [prevColumns[i] EXCEPT !.tasks =
      [k \in 1..Len(@) |-> IF @[k].id = id THEN [@[k] EXCEPT !.title = title] ELSE @[k]]]]

\* deleteTask's filter with the comparison inverted
RemoveTask_Inverted(prevColumns, id) ==
  [i \in 1..4 |-> [prevColumns[i] EXCEPT !.tasks = SelectSeq(@, LAMBDA t : t.id = id)]]

\* setColumns updater of deleteTask
RemoveTask(prevColumns, id) ==
  [i \in 1..4 |-> [prevColumns[i] EXCEPT !.tasks = SelectSeq(@, LAMBDA t : t.id # id)]]

\* ------------------------------------------------------- remote requests
NoReq == [kind |-> "none", phase |-> "none", user |-> NoUser, board |-> NoBoard,
          id |-> 0, status |-> "", title |-> "", data |-> <<>>]

FreeSlots == {s \in 1..MaxInflight : inflight[s].kind = "none"}

HasFreeSlot == FreeSlots # {} /\ calls < MaxCalls

\* the request occupies the lowest free slot
Send(req) ==
  /\ inflight' = [inflight EXCEPT ![CHOOSE s \in FreeSlots : \A t \in FreeSlots : s <= t] = req]
  /\ calls' = calls + 1

Idle == \A s \in 1..MaxInflight : inflight[s].kind = "none"

\* ids of the tasks the board shows, from which the UI invokes operations
ShownIds == {t.id : t \in Range(AllTasks(columns))}

\* ------------------------------------------------- the task state container
KanbanInit ==
  /\ impl \in Impls
  /\ user \in Users \cup {NoUser}
  /\ boardId \in {NoBoard, "b1"}
  /\ (impl = "context" => boardId = NoBoard)
  /\ effectPending = TRUE
  /\ columns = DefaultColumns
  /\ loading = FALSE
  /\ toast = ""
  /\ store = [n \in 1..MaxRows |-> NoRow]
  /\ inflight = [s \in 1..MaxInflight |-> NoReq]
  /\ calls = 0
  /\ last = [step |-> "mount", data |-> <<>>]

\* no page component of the router is mounted
NoPage == [name |-> "none", deps |-> <<>>]

\* no getSession() of the Auth page's checkUser is pending
NoCheck == [state |-> "none", result |-> <<>>]

NoBoardFetch == [phase |-> "none", boardId |-> NoBoard, user |-> NoUser]

\* the Auth page's form at rest: loading false, no call pending
NoForm == [loading |-> FALSE, call |-> "none", phase |-> "none"]

\* no redirect has been followed
NoChain == [auth |-> <<>>, visited |-> {}, cycle |-> FALSE]

\* the router shows no page: the task board is looked at on its own
PageIdle ==
  /\ route = <<"/">>
  /\ page = NoPage
  /\ checkUser = NoCheck
  /\ board = NoBoard
  /\ boardLoading = TRUE
  /\ isOwner = FALSE
  /\ boardFetch = [s \in 1..MaxBoardFetch |-> NoBoardFetch]
  /\ chain = NoChain
  /\ authForm = NoForm

\* no drag in progress, useState<number | null>(null) in every column
DragIdle ==
  /\ dataTransfer = [active |-> FALSE, taskId |-> <<>>]
  /\ dragOverIndex = [i \in 1..4 |-> <<>>]
  /\ lastDrop = <<>>

\* the AuthProvider has initialised; the container sees its user through
\* useAuth()
AuthIdle ==
  /\ session = <<>>
  /\ authLoading = FALSE
  /\ isMounted = TRUE
  /\ backendSession = <<>>
  /\ getSession = [state |-> "done", result |-> <<>>]
  /\ lastEvent = <<>>

Init == KanbanInit /\ DragIdle /\ AuthIdle /\ PageIdle

\* useAuth() hands the provider a new user object: sign-in, sign-out, or a
\* fresh session object for the same user (token refresh)
AuthUserChange(u) ==
  /\ ~(user = NoUser /\ u = NoUser)
  /\ user' = u
  /\ effectPending' = TRUE
  /\ UNCHANGED <<last, impl, boardId, columns, loading, toast, store, inflight, calls, dragVars, authVars, pageVars>>

\* the Board page's route parameter changes under the mounted provider
BoardChange(b) ==
  /\ impl = "hook"
  /\ boardId # NoBoard
  /\ b # boardId
  /\ boardId' = b
  /\ effectPending' = TRUE
  /\ UNCHANGED <<last, impl, user, columns, loading, toast, store, inflight, calls, dragVars, authVars, pageVars>>

\* fetchTasks(): the part that runs up to the await
FetchTasksCall ==
  IF user = NoUser
  THEN /\ columns' = DefaultColumns
       /\ last' = [step |-> "fetchNoUser", data |-> <<>>]
       /\ toast' = ""
       /\ UNCHANGED <<loading, inflight, calls>>
  ELSE /\ HasFreeSlot
       /\ loading' = TRUE
       /\ Send([NoReq EXCEPT !.kind = "fetch", !.phase = "sent", !.user = user, !.board = boardId])
       /\ UNCHANGED <<last, toast, columns>>

\* useEffect(..., [user]) of KanbanContext.tsx: always fetchTasks();
\* useEffect(..., [user, currentBoardId]) of the newer provider: only if (user)
RunEffect ==
  /\ effectPending
  /\ effectPending' = FALSE
  /\ IF impl = "context" \/ user # NoUser
     THEN FetchTasksCall
     ELSE /\ UNCHANGED <<last, toast, columns, loading, inflight, calls>>
  /\ UNCHANGED <<impl, user, boardId, store, dragVars, authVars, pageVars>>

\* addTask without the "if (!userId) return" guard
AddTask_NoGuard(title, status) ==
  /\ ~effectPending
  /\ HasFreeSlot
  /\ Send([NoReq EXCEPT !.kind = "add", !.phase = "sent", !.user = user, !.board = boardId,
                        !.status = status, !.title = title])
  /\ UNCHANGED <<toast, last>>
  /\ UNCHANGED <<impl, user, boardId, effectPending, columns, loading, store, dragVars, authVars, pageVars>>

\* addTask(title, ..., status, ...) up to the await; React runs a scheduled
\* effect before it handles the next user event
AddTask(title, status) ==
  /\ ~effectPending
  /\ IF user = NoUser
     THEN /\ toast' = IF impl = "hook" THEN "Authentication required" ELSE ""
          /\ last' = [step |-> "addNoUser", data |-> <<>>]
          /\ UNCHANGED <<inflight, calls>>
     ELSE /\ HasFreeSlot
          /\ Send([NoReq EXCEPT !.kind = "add", !.phase = "sent", !.user = user, !.board = boardId,
                                !.status = status, !.title = title])
          /\ UNCHANGED <<toast, last>>
  /\ UNCHANGED <<impl, user, boardId, effectPending, columns, loading, store, dragVars, authVars, pageVars>>

\* updateTaskStatus(id, newStatus) up to the await
UpdateTaskStatusCall(id, newStatus) ==
  /\ HasFreeSlot
  /\ Send([NoReq EXCEPT !.kind = "status", !.phase = "sent", !.id = ParseInt(id), !.status = newStatus])

UpdateTaskStatus(id, newStatus) ==
  /\ ~effectPending
  /\ UpdateTaskStatusCall(id, newStatus)
  /\ UNCHANGED <<last, impl, user, boardId, effectPending, columns, loading, toast, store, dragVars, authVars, pageVars>>

\* updateTaskDetails(id, title, ...) up to the await
UpdateTaskDetails(id, title) ==
  /\ ~effectPending
  /\ HasFreeSlot
  /\ Send([NoReq EXCEPT !.kind = "details", !.phase = "sent", !.id = ParseInt(id), !.title = title])
  /\ UNCHANGED <<last, impl, user, boardId, effectPending, columns, loading, toast, store, dragVars, authVars, pageVars>>

\* deleteTask(id) up to the await
DeleteTask(id) ==
  /\ ~effectPending
  /\ HasFreeSlot
  /\ Send([NoReq EXCEPT !.kind = "delete", !.phase = "sent", !.id = ParseInt(id)])
  /\ UNCHANGED <<last, impl, user, boardId, effectPending, columns, loading, toast, store, dragVars, authVars, pageVars>>

\* ---------------------------------------------------- the remote task table
\* rows a select('*').eq('user_id', u)[.eq('board_id', b)] matches
Matching(u, b) ==
  {n \in 1..MaxRows : /\ store[n].state = "live"
                      /\ store[n].user = u
                      /\ (b # NoBoard => store[n].board = b)}

\* the table carries out a pending request and answers without error; a
\* query without order() returns the matching rows in any order
ServerOk(s) ==
  /\ inflight[s].phase = "sent"
  /\ LET req == inflight[s] IN
     CASE req.kind = "fetch" ->
            /\ \E p \in Perms(Matching(req.user, req.board)) :
                 inflight' = [inflight EXCEPT ![s].phase = "ok",
                                              ![s].data = [i \in 1..Len(p) |-> RowData(p[i])]]
            /\ UNCHANGED store
       [] req.kind = "add" ->
            /\ NextId <= MaxRows
            /\ store' = [store EXCEPT ![NextId] = [state |-> "live", status |-> req.status,
                                                  title |-> req.title, user |-> req.user, board |-> req.board]]
            /\ inflight' = [inflight EXCEPT ![s].phase = "ok", ![s].id = NextId,
                   ![s].data = <<[id |-> NextId, status |-> req.status, title |-> req.title]>>]
       [] req.kind = "status" ->
            /\ store' = [store EXCEPT ![req.id].status = IF store[req.id].state = "live" THEN req.status ELSE @]
            /\ inflight' = [inflight EXCEPT ![s].phase = "ok"]
       [] req.kind = "details" ->
            /\ store' = [store EXCEPT ![req.id].title = IF store[req.id].state = "live" THEN req.title ELSE @]
            /\ inflight' = [inflight EXCEPT ![s].phase = "ok"]
       [] req.kind = "delete" ->
            /\ store' = [store EXCEPT ![req.id] = IF @.state = "live" THEN [@ EXCEPT !.state = "deleted", !.status = "", !.title = ""] ELSE @]
            /\ inflight' = [inflight EXCEPT ![s].phase = "ok"]
  /\ UNCHANGED <<impl, user, boardId, effectPending, columns, loading, toast, calls, last, dragVars, authVars, pageVars>>

\* the table (or the network) answers a pending request with an error
ServerError(s) ==
  /\ inflight[s].phase = "sent"
  /\ inflight' = [inflight EXCEPT ![s].phase = "err"]
  /\ UNCHANGED <<impl, user, boardId, effectPending, columns, loading, toast, store, calls, last, dragVars, authVars, pageVars>>

\* another client inserts a row
ExternalInsert(status, u, b) ==
  /\ NextId <= MaxRows
  /\ store' = [store EXCEPT ![NextId] = [state |-> "live", status |-> status, title |-> "t1",
                                        user |-> u, board |-> b]]
  /\ UNCHANGED <<impl, user, boardId, effectPending, columns, loading, toast, inflight, calls, last, dragVars, authVars, pageVars>>

\* --------------------------------- continuations after the await (responses)
\* toast({title: ...}) of a catch block; KanbanContext.tsx only logs
ErrorToast(title) == IF impl = "hook" THEN title ELSE ""

\* fetchTasks after "await query"
FetchTasksDone(s) ==
  /\ inflight[s].kind = "fetch"
  /\ inflight[s].phase \in {"ok", "err"}
  /\ IF inflight[s].phase = "ok"
     THEN /\ columns' = GroupByStatus(inflight[s].data)
          /\ last' = [step |-> "fetchOk", data |-> inflight[s].data]
          /\ toast' = ""
     ELSE /\ toast' = ErrorToast("Error fetching tasks")
          /\ last' = [step |-> "fetchErr", data |-> <<>>]
          /\ UNCHANGED columns
  /\ loading' = FALSE
  /\ inflight' = [inflight EXCEPT ![s] = NoReq]
  /\ UNCHANGED <<impl, user, boardId, effectPending, store, calls, dragVars, authVars, pageVars>>

\* the task addTask appends: mapTaskFromSupabase(data) in useKanbanTasks, the
\* locally built newTask in KanbanContext.tsx
AddedTask(req) ==
  IF impl = "hook"
  THEN mapTaskFromSupabase(req.data[1])
  ELSE [id |-> toString(req.id), status |-> req.status, title |-> req.title]

\* addTask after "await supabase.from('tasks').insert(...)"
AddTaskDone(s) ==
  /\ inflight[s].kind = "add"
  /\ inflight[s].phase \in {"ok", "err"}
  /\ IF inflight[s].phase = "ok"
     THEN /\ columns' = AppendTask(columns, inflight[s].status, AddedTask(inflight[s]))
          /\ last' = [step |-> "addOk", data |-> <<inflight[s].id>>]
          /\ toast' = ""
     ELSE /\ toast' = ErrorToast("Error adding task")
          /\ last' = [step |-> "addErr", data |-> <<inflight[s].id>>]
          /\ UNCHANGED columns
  /\ inflight' = [inflight EXCEPT ![s] = NoReq]
  /\ UNCHANGED <<impl, user, boardId, effectPending, loading, store, calls, dragVars, authVars, pageVars>>

\* updateTaskStatus after the await
UpdateTaskStatusDone(s) ==
  /\ inflight[s].kind = "status"
  /\ inflight[s].phase \in {"ok", "err"}
  /\ IF inflight[s].phase = "ok"
     THEN /\ columns' = MoveToStatus(columns, toString(inflight[s].id), inflight[s].status)
          /\ last' = [step |-> "statusOk", data |-> <<inflight[s].id>>]
          /\ toast' = ""
     ELSE /\ toast' = ErrorToast("Error updating task")
          /\ last' = [step |-> "statusErr", data |-> <<inflight[s].id>>]
          /\ UNCHANGED columns
  /\ inflight' = [inflight EXCEPT ![s] = NoReq]
  /\ UNCHANGED <<impl, user, boardId, effectPending, loading, store, calls, dragVars, authVars, pageVars>>

\* updateTaskDetails after the await
UpdateTaskDetailsDone(s) ==
  /\ inflight[s].kind = "details"
  /\ inflight[s].phase \in {"ok", "err"}
  /\ IF inflight[s].phase = "ok"
     THEN /\ columns' = EditTask(columns, toString(inflight[s].id), inflight[s].title)
          /\ last' = [step |-> "detailsOk", data |-> <<inflight[s].id>>]
          /\ toast' = ""
     ELSE /\ toast' = ErrorToast("Error updating task details")
          /\ last' = [step |-> "detailsErr", data |-> <<inflight[s].id>>]
          /\ UNCHANGED columns
  /\ inflight' = [inflight EXCEPT ![s] = NoReq]
  /\ UNCHANGED <<impl, user, boardId, effectPending, loading, store, calls, dragVars, authVars, pageVars>>

\* deleteTask that removes the task before looking at the error
DeleteTaskDone_IgnoreError(s) ==
  /\ inflight[s].kind = "delete"
  /\ inflight[s].phase \in {"ok", "err"}
  /\ columns' = RemoveTask(columns, toString(inflight[s].id))
  /\ IF inflight[s].phase = "ok"
     THEN /\ last' = [step |-> "deleteOk", data |-> <<inflight[s].id>>]
          /\ toast' = ""
     ELSE /\ toast' = ErrorToast("Error deleting task")
          /\ last' = [step |-> "deleteErr", data |-> <<inflight[s].id>>]
  /\ inflight' = [inflight EXCEPT ![s] = NoReq]
  /\ UNCHANGED <<impl, user, boardId, effectPending, loading, store, calls, dragVars, authVars, pageVars>>

\* deleteTask after the await
DeleteTaskDone(s) ==
  /\ inflight[s].kind = "delete"
  /\ inflight[s].phase \in {"ok", "err"}
  /\ IF inflight[s].phase = "ok"
     THEN /\ columns' = RemoveTask(columns, toString(inflight[s].id))
          /\ last' = [step |-> "deleteOk", data |-> <<inflight[s].id>>]
          /\ toast' = ""
     ELSE /\ toast' = ErrorToast("Error deleting task")
          /\ last' = [step |-> "deleteErr", data |-> <<inflight[s].id>>]
          /\ UNCHANGED columns
  /\ inflight' = [inflight EXCEPT ![s] = NoReq]
  /\ UNCHANGED <<impl, user, boardId, effectPending, loading, store, calls, dragVars, authVars, pageVars>>

Next ==
  \/ \E u \in Users \cup {NoUser} : AuthUserChange(u)
  \/ \E b \in Boards : BoardChange(b)
  \/ RunEffect
  \/ \E st \in InputStatus : AddTask("t1", st)
  \/ \E id \in ShownIds, st \in InputStatus : UpdateTaskStatus(id, st)
  \/ \E id \in ShownIds, t \in Titles : UpdateTaskDetails(id, t)
  \/ \E id \in ShownIds : DeleteTask(id)
  \/ \E s \in 1..MaxInflight : ServerOk(s)
  \/ \E s \in 1..MaxInflight : ServerError(s)
  \/ \E st \in ExternalStatus, u \in Users, b \in Boards : ExternalInsert(st, u, b)
  \/ \E s \in 1..MaxInflight : FetchTasksDone(s)
  \/ \E s \in 1..MaxInflight : AddTaskDone(s)
  \/ \E s \in 1..MaxInflight : UpdateTaskStatusDone(s)
  \/ \E s \in 1..MaxInflight : UpdateTaskDetailsDone(s)
  \/ \E s \in 1..MaxInflight : DeleteTaskDone(s)

Spec == Init /\ [][Next]_vars

\* the container with a table that answers every request without error and
\* that no other client writes to
NextSync ==
  \/ \E u \in Users \cup {NoUser} : AuthUserChange(u)
  \/ \E b \in Boards : BoardChange(b)
  \/ RunEffect
  \/ \E st \in InputStatus : AddTask("t1", st)
  \/ \E id \in ShownIds, st \in InputStatus : UpdateTaskStatus(id, st)
  \/ \E id \in ShownIds, t \in Titles : UpdateTaskDetails(id, t)
  \/ \E id \in ShownIds : DeleteTask(id)
  \/ \E s \in 1..MaxInflight : ServerOk(s)
  \/ \E s \in 1..MaxInflight : FetchTasksDone(s)
  \/ \E s \in 1..MaxInflight : AddTaskDone(s)
  \/ \E s \in 1..MaxInflight : UpdateTaskStatusDone(s)
  \/ \E s \in 1..MaxInflight : UpdateTaskDetailsDone(s)
  \/ \E s \in 1..MaxInflight : DeleteTaskDone(s)

SpecSync == Init /\ [][NextSync]_vars

\* ------------------------------------- KanbanColumn / TaskCard drag and drop
\* layout of a column in pointer units: the cards below the column header,
\* one under the other
HeaderHeight == 0

CardHeight == 1

CardGap == 0

\* rect.top of the card at index k (from 0)
CardTop(k) == HeaderHeight + k * (CardHeight + CardGap)

\* twice rect.top + rect.height / 2, to stay in the integers
TaskMiddle2(k) == 2 * CardTop(k) + CardHeight

\* twice Math.abs(e.clientY - taskMiddle)
Distance2(k, y) == IF 2 * y >= TaskMiddle2(k) THEN 2 * y - TaskMiddle2(k) ELSE TaskMiddle2(k) - 2 * y

\* the forEach over the cards: the first card at the least distance
ClosestIdx(n, y) ==
  CHOOSE k \in 0..(n - 1) :
    \A j \in 0..(n - 1) : IF j < k THEN Distance2(j, y) > Distance2(k, y)
                                 ELSE Distance2(j, y) >= Distance2(k, y)

\* handleDragOver that always stores the closest card's index
DragOverIndexFor_Closest(n, y) == IF n > 0 THEN ClosestIdx(n, y) ELSE 0

\* the index handleDragOver stores for a column of n cards and pointer y
DragOverIndexFor(n, y) ==
  IF n > 0
  THEN IF 2 * y < TaskMiddle2(ClosestIdx(n, y)) THEN ClosestIdx(n, y) ELSE ClosestIdx(n, y) + 1
  ELSE 0

\* e.clientY over a column
PointerYs == 0..(HeaderHeight + MaxRows * (CardHeight + CardGap))

\* the columns the runs drag over
DragColumns == {i \in 1..4 : ColumnIds[i] \in InputStatus}

\* TaskCard.handleDragStart
HandleDragStart(id) ==
  /\ ~dataTransfer.active
  /\ calls < MaxDragCalls
  /\ dataTransfer' = [active |-> TRUE, taskId |-> id]
  /\ UNCHANGED <<kanbanVars, dragOverIndex, lastDrop, authVars, pageVars, user, toast, last>>

\* a drag that did not start on a TaskCard carries no 'taskId' data
DragStartOther ==
  /\ ~dataTransfer.active
  /\ calls < MaxDragCalls
  /\ dataTransfer' = [active |-> TRUE, taskId |-> <<>>]
  /\ UNCHANGED <<kanbanVars, dragOverIndex, lastDrop, authVars, pageVars, user, toast, last>>

\* KanbanColumn.handleDragOver of column i; the pointer is over one column at
\* a time: the browser fires dragleave on the column it left before
HandleDragOver(i, y) ==
  /\ dataTransfer.active
  /\ \A j \in 1..4 : j # i => dragOverIndex[j] = <<>>
  /\ dragOverIndex' = [dragOverIndex EXCEPT ![i] = <<DragOverIndexFor(Len(columns[i].tasks), y)>>]
  /\ last' = [step |-> "dragOver", data |-> <<i, y>>]
  /\ toast' = ""
  /\ UNCHANGED <<kanbanVars, dataTransfer, lastDrop, authVars, pageVars, user>>

\* KanbanColumn.handleDragLeave of column i; inside: the pointer moved on to a
\* child element of the column
HandleDragLeave(i, inside) ==
  /\ dataTransfer.active
  /\ dragOverIndex' = IF inside THEN dragOverIndex ELSE [dragOverIndex EXCEPT ![i] = <<>>]
  /\ last' = [step |-> "dragLeave", data |-> <<i>>]
  /\ toast' = ""
  /\ UNCHANGED <<kanbanVars, dataTransfer, lastDrop, authVars, pageVars, user>>

\* handleDrop without the final setDragOverIndex(null)
HandleDrop_KeepIndex(i) ==
  /\ dataTransfer.active
  /\ IF dataTransfer.taskId # <<>>
     THEN /\ UpdateTaskStatusCall(dataTransfer.taskId, columns[i].id)
          /\ lastDrop' = <<dataTransfer.taskId, columns[i].id, dragOverIndex[i]>>
     ELSE UNCHANGED <<inflight, calls, lastDrop>>
  /\ dataTransfer' = [active |-> FALSE, taskId |-> <<>>]
  /\ last' = [step |-> "drop", data |-> <<i>>]
  /\ toast' = ""
  /\ UNCHANGED <<impl, user, boardId, effectPending, columns, loading, store, authVars, pageVars, dragOverIndex>>

\* KanbanColumn.handleDrop of column i; the drop ends the drag
HandleDrop(i) ==
  /\ dataTransfer.active
  /\ IF dataTransfer.taskId # <<>>
     THEN /\ UpdateTaskStatusCall(dataTransfer.taskId, columns[i].id)
          /\ lastDrop' = <<dataTransfer.taskId, columns[i].id, dragOverIndex[i]>>
     ELSE UNCHANGED <<inflight, calls, lastDrop>>
  /\ dragOverIndex' = [dragOverIndex EXCEPT ![i] = <<>>]
  /\ dataTransfer' = [active |-> FALSE, taskId |-> <<>>]
  /\ last' = [step |-> "drop", data |-> <<i>>]
  /\ toast' = ""
  /\ UNCHANGED <<impl, user, boardId, effectPending, columns, loading, store, authVars, pageVars>>

\* a board of a signed-in user whose table already holds tasks, all of them
\* in "todo"
DragInit ==
  /\ impl \in Impls
  /\ user \in Users
  /\ boardId = NoBoard
  /\ effectPending = TRUE
  /\ columns = DefaultColumns
  /\ loading = FALSE
  /\ toast = ""
  /\ store = [n \in 1..MaxRows |-> [state |-> "live", status |-> "todo",
                                     title |-> "t1", user |-> user, board |-> NoBoard]]
  /\ inflight = [s \in 1..MaxInflight |-> NoReq]
  /\ calls = 0
  /\ last = [step |-> "mount", data |-> <<>>]
  /\ DragIdle
  /\ AuthIdle
  /\ PageIdle

NextDrag ==
  \/ RunEffect
  \/ \E s \in 1..MaxInflight : ServerOk(s)
  \/ \E s \in 1..MaxInflight : FetchTasksDone(s)
  \/ \E s \in 1..MaxInflight : UpdateTaskStatusDone(s)
  \/ \E id \in ShownIds : HandleDragStart(id)
  \/ DragStartOther
  \/ \E i \in DragColumns, y \in PointerYs : HandleDragOver(i, y)
  \/ \E i \in DragColumns, inside \in BOOLEAN : HandleDragLeave(i, inside)
  \/ \E i \in DragColumns : HandleDrop(i)

SpecDrag == DragInit /\ [][NextDrag]_vars

\* ------------------------------------------------------------ AuthProvider
\* number of session objects the auth backend issues per account
MaxTokens == 2

Accounts == {"u1", "u2"}

\* a session object: the account it belongs to and which of its tokens it
\* carries; null is the empty tuple
NoSession == <<>>

Sessions == {<<a, k>> : a \in Accounts, k \in 1..MaxTokens}

\* currentSession?.user ?? null
SessionUser(s) == IF s = NoSession THEN NoUser ELSE s[1]

\* the state right after the mount effect ran: the listener is subscribed and
\* getSession() has been called
AuthMounted ==
  /\ session = NoSession
  /\ user = NoUser
  /\ authLoading = TRUE
  /\ isMounted = TRUE
  /\ backendSession \in Sessions \cup {NoSession}
  /\ getSession = [state |-> "called", result |-> NoSession]
  /\ lastEvent = <<>>
  /\ toast = ""
  /\ last = [step |-> "mount", data |-> <<>>]
  /\ impl = "hook"
  /\ boardId = NoBoard
  /\ effectPending = FALSE
  /\ columns = DefaultColumns
  /\ loading = FALSE
  /\ store = [n \in 1..MaxRows |-> NoRow]
  /\ inflight = [s \in 1..MaxInflight |-> NoReq]
  /\ calls = 0
  /\ DragIdle

AuthInit == AuthMounted /\ PageIdle

\* the listener without the isMounted.current check
OnAuthStateChange_NoMountCheck(event, currentSession) ==
  /\ lastEvent' = <<event, currentSession>>
  /\ last' = [step |-> "authEvent", data |-> <<>>]
  /\ session' = currentSession
  /\ user' = SessionUser(currentSession)
  /\ authLoading' = FALSE
  /\ toast' = CASE event = "SIGNED_IN" -> "Signed in successfully"
                [] event = "SIGNED_OUT" -> "Signed out"
                [] OTHER -> ""

\* the callback passed to onAuthStateChange
OnAuthStateChange(event, currentSession) ==
  /\ lastEvent' = <<event, currentSession>>
  /\ last' = [step |-> "authEvent", data |-> <<>>]
  /\ IF isMounted
     THEN /\ session' = currentSession
          /\ user' = SessionUser(currentSession)
          /\ authLoading' = FALSE
          /\ toast' = CASE event = "SIGNED_IN" -> "Signed in successfully"
                        [] event = "SIGNED_OUT" -> "Signed out"
                        [] OTHER -> ""
     ELSE /\ toast' = ""
          /\ UNCHANGED <<session, user, authLoading>>

\* the backend signs an account in and notifies the listener
BackendSignIn(s) ==
  /\ s # backendSession
  /\ backendSession' = s
  /\ OnAuthStateChange("SIGNED_IN", s)
  /\ UNCHANGED <<isMounted, getSession, kanbanVars, dragVars>>

\* the backend replaces the session by a refreshed one of the same account
BackendTokenRefreshed(s) ==
  /\ backendSession # NoSession
  /\ s # backendSession
  /\ s[1] = backendSession[1]
  /\ backendSession' = s
  /\ OnAuthStateChange("TOKEN_REFRESHED", s)
  /\ UNCHANGED <<isMounted, getSession, kanbanVars, dragVars>>

\* signOut(): supabase.auth.signOut() ends the session and notifies the
\* listener
SignOut ==
  /\ backendSession # NoSession
  /\ backendSession' = NoSession
  /\ OnAuthStateChange("SIGNED_OUT", NoSession)
  /\ UNCHANGED <<isMounted, getSession, kanbanVars, dragVars>>

\* signOut(): supabase.auth.signOut() throws
SignOutError ==
  /\ toast' = IF isMounted THEN "Error signing out" ELSE ""
  /\ last' = [step |-> "signOutError", data |-> <<>>]
  /\ UNCHANGED <<session, user, authLoading, isMounted, backendSession, getSession, lastEvent,
                 kanbanVars, dragVars>>

\* the backend reads the session that getSession() will resolve to
GetSessionRead ==
  /\ getSession.state = "called"
  /\ getSession' = [state |-> "read", result |-> backendSession]
  /\ UNCHANGED <<session, user, authLoading, isMounted, backendSession, lastEvent, toast, last,
                 kanbanVars, dragVars>>

\* the .then() callback of getSession() without its setLoading(false)
GetSessionThen_KeepLoading ==
  /\ getSession.state = "read"
  /\ getSession' = [getSession EXCEPT !.state = "done"]
  /\ last' = [step |-> "getSessionThen", data |-> <<>>]
  /\ toast' = ""
  /\ IF isMounted
     THEN /\ session' = getSession.result
          /\ user' = SessionUser(getSession.result)
          /\ UNCHANGED authLoading
     ELSE UNCHANGED <<session, user, authLoading>>
  /\ UNCHANGED <<isMounted, backendSession, lastEvent, kanbanVars, dragVars>>

\* the .then() callback of getSession()
GetSessionThen ==
  /\ getSession.state = "read"
  /\ getSession' = [getSession EXCEPT !.state = "done"]
  /\ last' = [step |-> "getSessionThen", data |-> <<>>]
  /\ toast' = ""
  /\ IF isMounted
     THEN /\ session' = getSession.result
          /\ user' = SessionUser(getSession.result)
          /\ authLoading' = FALSE
     ELSE UNCHANGED <<session, user, authLoading>>
  /\ UNCHANGED <<isMounted, backendSession, lastEvent, kanbanVars, dragVars>>

\* the cleanup of the mount effect
Unmount ==
  /\ isMounted
  /\ isMounted' = FALSE
  /\ UNCHANGED <<session, user, authLoading, backendSession, getSession, lastEvent, toast, last,
                 kanbanVars, dragVars>>

\* the AuthProvider on its own: no page listens to the events
NextAuth ==
  \/ \E s \in Sessions : BackendSignIn(s) /\ UNCHANGED pageVars
  \/ \E s \in Sessions : BackendTokenRefreshed(s) /\ UNCHANGED pageVars
  \/ SignOut /\ UNCHANGED pageVars
  \/ SignOutError /\ UNCHANGED pageVars
  \/ GetSessionRead /\ UNCHANGED pageVars
  \/ GetSessionThen /\ UNCHANGED pageVars
  \/ Unmount /\ UNCHANGED pageVars

SpecAuth == AuthInit /\ [][NextAuth]_vars

\* the promise of getSession() settles: the backend reads the session and the
\* .then() callback runs; auth events and the unmount may or may not happen
SpecAuthFair ==
  /\ SpecAuth
  /\ WF_vars(GetSessionRead /\ UNCHANGED pageVars)
  /\ WF_vars(GetSessionThen /\ UNCHANGED pageVars)

\* --------------------------------------------- AppRoutes and the pages
\* the locations the runs visit: the four routes, with each board, and one
\* location that matches no route
Routes == {<<"/">>, <<"/auth">>, <<"/profile">>, <<"*">>} \cup {<<"/board", b>> : b \in Boards}

\* rows of board_members: u1 owns b1 and has no row for b2, u2 is a member
\* of b2 without owning it
BoardMembers == {<<"u1", "b1", "owner">>, <<"u2", "b2", "member">>}

\* the role the select('role')...single() finds, "none" when no row matches
Role(u, b) ==
  IF \E m \in BoardMembers : m[1] = u /\ m[2] = b
  THEN (CHOOSE m \in BoardMembers : m[1] = u /\ m[2] = b)[3]
  ELSE "none"

\* AppRoutes without the loading gate: the routes are rendered at once
AppRoutes_NoLoadingGate(ld, u, r) ==
  CASE r = <<"/">> -> IF u # NoUser THEN [el |-> "Index", to |-> <<>>]
                                    ELSE [el |-> "Navigate", to |-> <<"/auth">>]
    [] r = <<"/auth">> -> IF u = NoUser THEN [el |-> "Auth", to |-> <<>>]
                                        ELSE [el |-> "Navigate", to |-> <<"/">>]
    [] r = <<"/profile">> -> [el |-> "Profile", to |-> <<>>]
    [] r[1] = "/board" -> [el |-> "Board", to |-> <<>>]
    [] OTHER -> [el |-> "NotFound", to |-> <<>>]

\* what AppRoutes returns for useAuth()'s loading and user at location r
AppRoutes(ld, u, r) ==
  IF ld THEN [el |-> "spinner", to |-> <<>>]
  ELSE CASE r = <<"/">> -> IF u # NoUser THEN [el |-> "Index", to |-> <<>>]
                                          ELSE [el |-> "Navigate", to |-> <<"/auth">>]
         [] r = <<"/auth">> -> IF u = NoUser THEN [el |-> "Auth", to |-> <<>>]
                                              ELSE [el |-> "Navigate", to |-> <<"/">>]
         [] r = <<"/profile">> -> [el |-> "Profile", to |-> <<>>]
         [] r[1] = "/board" -> [el |-> "Board", to |-> <<>>]
         [] OTHER -> [el |-> "NotFound", to |-> <<>>]

Element == AppRoutes(authLoading, user, route)

PageNames == {"Index", "Auth", "Profile", "Board", "NotFound"}

\* the dependency list of the page's effect: [user, navigate] of Profile,
\* [boardId, user, navigate] of Board; the user object changes with the session
Deps(name) ==
  CASE name = "Profile" -> <<session>>
    [] name = "Board" -> <<route[2], session>>
    [] OTHER -> <<>>

\* the page rendered has an effect to run: it has just mounted, or the deps of
\* its effect have changed
PageEffectPending ==
  /\ Element.el \in PageNames
  /\ (page.name # Element.el \/ page.deps # Deps(Element.el))

BoardFetchIdle == \A s \in 1..MaxBoardFetch : boardFetch[s].phase = "none"

\* the redirects followed so far with the authentication state unchanged, each
\* of them decided on that state (a redirect decided on a session read before
\* the state changed starts no chain)
Follow(r) ==
  IF chain.auth = <<user, backendSession>>
  THEN chain' = [chain EXCEPT !.visited = @ \cup {r}, !.cycle = @ \/ r \in chain.visited]
  ELSE chain' = [auth |-> <<user, backendSession>>, visited |-> {route, r}, cycle |-> FALSE]

\* the location becomes r: the Board component stays mounted from one board to
\* another; any other page is unmounted, and the next one mounts with its
\* initial state
Enter(r) ==
  /\ route' = r
  /\ IF page.name = "Board" /\ Element.el = "Board" /\ r[1] = "/board"
     THEN UNCHANGED <<page, checkUser, board, boardLoading, isOwner, boardFetch, authForm>>
     ELSE /\ page' = NoPage
          /\ checkUser' = NoCheck
          /\ board' = NoBoard
          /\ boardLoading' = TRUE
          /\ isOwner' = FALSE
          /\ boardFetch' = [s \in 1..MaxBoardFetch |-> NoBoardFetch]
          /\ authForm' = NoForm

\* the user follows a link of the page shown
UserNavigate(r) ==
  /\ Element.el \in PageNames
  /\ ~PageEffectPending
  /\ r # route
  /\ Enter(r)
  /\ chain' = NoChain
  /\ last' = [step |-> "navigate", data |-> <<>>]
  /\ toast' = ""
  /\ UNCHANGED <<kanbanVars, dragVars, authVars, user>>

\* <Navigate to=... replace /> rendered by AppRoutes
Redirect ==
  /\ Element.el = "Navigate"
  /\ Enter(Element.to)
  /\ Follow(Element.to)
  /\ last' = [step |-> "redirect", data |-> <<>>]
  /\ toast' = ""
  /\ UNCHANGED <<kanbanVars, dragVars, authVars, user>>

\* Index and NotFound mount: no effect of theirs navigates
MountPlain ==
  /\ PageEffectPending
  /\ Element.el \in {"Index", "NotFound"}
  /\ page' = [name |-> Element.el, deps |-> Deps(Element.el)]
  /\ UNCHANGED <<route, checkUser, board, boardLoading, isOwner, boardFetch, chain, authForm>>
  /\ UNCHANGED <<kanbanVars, dragVars, authVars, user, toast, last>>

\* the Auth page's effect: checkUser() calls getSession(), and the page
\* subscribes to the auth events
AuthEffect ==
  /\ PageEffectPending
  /\ Element.el = "Auth"
  /\ page' = [name |-> "Auth", deps |-> Deps("Auth")]
  /\ checkUser' = [state |-> "called", result |-> NoSession]
  /\ UNCHANGED <<route, board, boardLoading, isOwner, boardFetch, chain, authForm>>
  /\ UNCHANGED <<kanbanVars, dragVars, authVars, user, toast, last>>

\* the backend reads the session the Auth page's getSession() resolves to
CheckUserRead ==
  /\ checkUser.state = "called"
  /\ checkUser' = [state |-> "read", result |-> backendSession]
  /\ UNCHANGED <<route, page, board, boardLoading, isOwner, boardFetch, chain, authForm>>
  /\ UNCHANGED <<kanbanVars, dragVars, authVars, user, toast, last>>

\* checkUser after "await supabase.auth.getSession()"
CheckUserDone ==
  /\ checkUser.state = "read"
  /\ IF checkUser.result # NoSession
     THEN /\ Enter(<<"/">>)
          /\ IF checkUser.result = backendSession
             THEN Follow(<<"/">>)
             ELSE chain' = NoChain
     ELSE /\ checkUser' = NoCheck
          /\ UNCHANGED <<route, page, board, boardLoading, isOwner, boardFetch, chain, authForm>>
  /\ last' = [step |-> "checkUser", data |-> <<>>]
  /\ toast' = ""
  /\ UNCHANGED <<kanbanVars, dragVars, authVars, user>>

\* the Auth page's onAuthStateChange callback, run with the event's session
AuthPageListener(sess) ==
  IF page.name = "Auth" /\ Element.el = "Auth" /\ sess # NoSession
  THEN /\ Enter(<<"/">>)
       /\ chain' = NoChain
  ELSE UNCHANGED pageVars

\* the Profile page's effect
ProfileEffect ==
  /\ PageEffectPending
  /\ Element.el = "Profile"
  /\ IF user # NoUser
     THEN /\ page' = [name |-> "Profile", deps |-> Deps("Profile")]
          /\ UNCHANGED <<route, checkUser, board, boardLoading, isOwner, boardFetch, chain, authForm>>
     ELSE /\ Enter(<<"/auth">>)
          /\ Follow(<<"/auth">>)
  /\ last' = [step |-> "profileEffect", data |-> <<>>]
  /\ toast' = ""
  /\ UNCHANGED <<kanbanVars, dragVars, authVars, user>>

FreeBoardFetch == {s \in 1..MaxBoardFetch : boardFetch[s].phase = "none"}

\* the Board page's effect: without a user navigate('/auth'), otherwise
\* fetchBoard() up to its first await
BoardEffect ==
  /\ PageEffectPending
  /\ Element.el = "Board"
  /\ IF user = NoUser
     THEN /\ Enter(<<"/auth">>)
          /\ Follow(<<"/auth">>)
     ELSE /\ FreeBoardFetch # {}
          /\ page' = [name |-> "Board", deps |-> Deps("Board")]
          /\ boardLoading' = TRUE
          /\ boardFetch' = [boardFetch EXCEPT ![CHOOSE s \in FreeBoardFetch : \A t \in FreeBoardFetch : s <= t] =
                              [phase |-> "board", boardId |-> route[2], user |-> user]]
          /\ UNCHANGED <<route, checkUser, board, isOwner, chain, authForm>>
  /\ last' = [step |-> "boardEffect", data |-> <<>>]
  /\ toast' = ""
  /\ UNCHANGED <<kanbanVars, dragVars, authVars, user>>

\* fetchBoard: the boards query returned the board; setBoard(data), then the
\* board_members query is sent
BoardQueryOk(s) ==
  /\ boardFetch[s].phase = "board"
  /\ board' = boardFetch[s].boardId
  /\ boardFetch' = [boardFetch EXCEPT ![s].phase = "member"]
  /\ UNCHANGED <<route, page, checkUser, boardLoading, isOwner, chain, authForm>>
  /\ UNCHANGED <<kanbanVars, dragVars, authVars, user, toast, last>>

\* fetchBoard: the boards query failed; toast, navigate('/profile') and, in
\* finally, setLoading(false)
BoardQueryError(s) ==
  /\ boardFetch[s].phase = "board"
  /\ Enter(<<"/profile">>)
  /\ Follow(<<"/profile">>)
  /\ last' = [step |-> "boardErr", data |-> <<>>]
  /\ toast' = "Error loading board"
  /\ UNCHANGED <<kanbanVars, dragVars, authVars, user>>

\* fetchBoard: if (!memberError && memberData) setIsOwner(role === 'owner')
SetIsOwner(role) == IF role # "none" THEN role = "owner" ELSE isOwner

\* fetchBoard after the board_members query, whose single() reports an error
\* when no row matches; then finally setLoading(false)
MemberQueryDone(s) ==
  /\ boardFetch[s].phase = "member"
  /\ isOwner' = SetIsOwner(Role(boardFetch[s].user, boardFetch[s].boardId))
  /\ boardLoading' = FALSE
  /\ boardFetch' = [boardFetch EXCEPT ![s] = NoBoardFetch]
  /\ last' = [step |-> "memberDone", data |-> <<>>]
  /\ toast' = ""
  /\ UNCHANGED <<route, page, checkUser, board, chain, authForm>>
  /\ UNCHANGED <<kanbanVars, dragVars, authVars, user>>

\* the effects and redirects of a render run before the next event is handled
PagesQuiet == Element.el # "Navigate" /\ ~PageEffectPending

\* the application starts at any location, the AuthProvider just mounted
PagesInit ==
  /\ AuthMounted
  /\ route \in Routes
  /\ page = NoPage
  /\ checkUser = NoCheck
  /\ board = NoBoard
  /\ boardLoading = TRUE
  /\ isOwner = FALSE
  /\ boardFetch = [s \in 1..MaxBoardFetch |-> NoBoardFetch]
  /\ chain = NoChain
  /\ authForm = NoForm

NextPages ==
  \/ \E s \in Sessions : PagesQuiet /\ BackendSignIn(s) /\ AuthPageListener(s)
  \/ \E s \in Sessions : PagesQuiet /\ BackendTokenRefreshed(s) /\ AuthPageListener(s)
  \/ PagesQuiet /\ SignOut /\ AuthPageListener(NoSession)
  \/ GetSessionRead /\ UNCHANGED pageVars
  \/ PagesQuiet /\ GetSessionThen /\ UNCHANGED pageVars
  \/ \E r \in Routes : UserNavigate(r)
  \/ Redirect
  \/ MountPlain
  \/ AuthEffect
  \/ CheckUserRead
  \/ CheckUserDone
  \/ ProfileEffect
  \/ BoardEffect
  \/ \E s \in 1..MaxBoardFetch : BoardQueryOk(s)
  \/ \E s \in 1..MaxBoardFetch : BoardQueryError(s)
  \/ \E s \in 1..MaxBoardFetch : MemberQueryDone(s)

SpecPages == PagesInit /\ [][NextPages]_vars

\* ------------------------------------------- the Auth page's email forms
\* the two submissions of the Auth page
FormCalls == {"signUp", "signIn"}

\* handleEmailSignUp / handleEmailSignIn up to the await: the submit buttons
\* are disabled while loading
HandleEmailSubmit(call) ==
  /\ Element.el = "Auth"
  /\ page.name = "Auth"
  /\ ~authForm.loading
  /\ authForm.phase = "none"
  /\ authForm' = [loading |-> TRUE, call |-> call, phase |-> "sent"]
  /\ last' = [step |-> "submit", data |-> <<call>>]
  /\ toast' = ""
  /\ UNCHANGED <<route, page, checkUser, board, boardLoading, isOwner, boardFetch, chain>>
  /\ UNCHANGED <<kanbanVars, dragVars, authVars, user>>

\* the backend call returns without starting a session: with an error, or,
\* for signUp, with the confirmation mail sent (a call that starts a session
\* is BackendSignIn, delivered to the listeners before the call returns)
AuthCallReturns(outcome) ==
  /\ authForm.phase = "sent"
  /\ outcome = "ok" => authForm.call = "signUp"
  /\ authForm' = [authForm EXCEPT !.phase = outcome]
  /\ UNCHANGED <<route, page, checkUser, board, boardLoading, isOwner, boardFetch, chain>>
  /\ UNCHANGED <<kanbanVars, dragVars, authVars, user, toast, last>>

\* the continuation whose catch block leaves loading as it is
HandleEmailDone_KeepLoading ==
  /\ authForm.phase \in {"ok", "err"}
  /\ authForm' = [loading |-> IF authForm.phase = "ok" /\ authForm.call = "signUp"
                               THEN FALSE ELSE authForm.loading,
                  call |-> "none", phase |-> "none"]
  /\ toast' = CASE authForm.phase = "err" -> "Error"
                [] authForm.call = "signUp" -> "Check your email"
                [] OTHER -> ""
  /\ last' = [step |-> "submitDone", data |-> <<authForm.call, authForm.phase>>]
  /\ UNCHANGED <<route, page, checkUser, board, boardLoading, isOwner, boardFetch, chain>>
  /\ UNCHANGED <<kanbanVars, dragVars, authVars, user>>

\* handleEmailSignUp / handleEmailSignIn after the await, on the mounted page:
\* the catch block of both and the finally block of signUp call
\* setLoading(false); signIn has no finally block
HandleEmailDone ==
  /\ authForm.phase \in {"ok", "err"}
  /\ authForm' = [loading |-> IF authForm.phase = "err" \/ authForm.call = "signUp"
                               THEN FALSE ELSE authForm.loading,
                  call |-> "none", phase |-> "none"]
  /\ toast' = CASE authForm.phase = "err" -> "Error"
                [] authForm.call = "signUp" -> "Check your email"
                [] OTHER -> ""
  /\ last' = [step |-> "submitDone", data |-> <<authForm.call, authForm.phase>>]
  /\ UNCHANGED <<route, page, checkUser, board, boardLoading, isOwner, boardFetch, chain>>
  /\ UNCHANGED <<kanbanVars, dragVars, authVars, user>>

\* the Auth page is opened
FormInit == PagesInit /\ route = <<"/auth">>

NextForm ==
  \/ NextPages
  \/ \E call \in FormCalls : HandleEmailSubmit(call)
  \/ \E outcome \in {"ok", "err"} : AuthCallReturns(outcome)
  \/ HandleEmailDone

\* the backend call of a submission returns and its continuation runs
SpecForm ==
  /\ FormInit
  /\ [][NextForm]_vars
  /\ WF_vars(\E outcome \in {"ok", "err"} : AuthCallReturns(outcome))
  /\ WF_vars(HandleEmailDone)

\* ================================================================= claims
Slots == 1..MaxInflight

MutationKinds == {"add", "status", "details", "delete"}

\* the continuation of the request in slot s runs in this step
Answered(s) == inflight[s].phase \in {"ok", "err"} /\ inflight'[s].kind = "none"

\* a handler sends a request into slot s in this step
Sent(s) == inflight[s].kind = "none" /\ inflight'[s].kind # "none"

ColumnsEmpty == \A i \in 1..4 : columns[i].tasks = <<>>

\* C1: every task held in the columns is in exactly one of the four columns,
\* and that column's id equals the task's status field.
C1_OneColumnPerTask ==
  /\ \A i \in 1..4 : \A k \in 1..Len(columns[i].tasks) : columns[i].tasks[k].status = columns[i].id
  /\ \A i, j \in 1..4 : \A k \in 1..Len(columns[i].tasks) : \A l \in 1..Len(columns[j].tasks) :
       columns[i].tasks[k].id = columns[j].tasks[l].id => i = j

\* position among the rows of the same status, counted in the order returned
RankInStatus(data, p) == Cardinality({q \in 1..p : data[q].status = data[p].status})

\* C2: after a fetchTasks call succeeds with a list of rows, the column of each
\* of the four statuses holds exactly the returned rows of that status, in the
\* order they were returned, and a row of any other status is in no column.
C2_FetchGroupsByStatus ==
  last.step = "fetchOk" =>
    LET data == last.data IN
    /\ \A i \in 1..4 :
         Len(columns[i].tasks) = Cardinality({p \in 1..Len(data) : data[p].status = columns[i].id})
    /\ \A p \in 1..Len(data) : \A i \in 1..4 :
         data[p].status = columns[i].id =>
           columns[i].tasks[RankInStatus(data, p)] =
             [id |-> toString(data[p].id), status |-> data[p].status, title |-> data[p].title]
    /\ \A p \in 1..Len(data) :
         data[p].status \notin TaskStatus =>
           \A i \in 1..4 : \A k \in 1..Len(columns[i].tasks) : columns[i].tasks[k].id # toString(data[p].id)

\* a successful fetch returned a row of one of the four statuses and a row of
\* none of them
C2_Witness ==
  /\ last.step = "fetchOk"
  /\ \E p \in 1..Len(last.data) : last.data[p].status \notin TaskStatus
  /\ \E p \in 1..Len(last.data) : last.data[p].status \in TaskStatus

\* C3: when the remote store answers addTask, updateTaskStatus/moveTask,
\* updateTaskDetails or deleteTask with an error, the columns after the call
\* equal the columns before it: neither sending the request nor handling the
\* error changes them.
C3_FailedMutationKeepsColumns ==
  [][\A s \in Slots :
       /\ (Sent(s) /\ inflight'[s].kind \in MutationKinds => columns' = columns)
       /\ (Answered(s) /\ inflight[s].kind \in MutationKinds /\ inflight[s].phase = "err"
             => columns' = columns)]_vars

\* a delete failed while the board showed tasks
C3_Witness == last.step = "deleteErr" /\ ~ColumnsEmpty

\* C4: every failing remote call of the container produces a user-facing
\* notification and is not retried: handling the error sends no request.
C4_FailureNotifiesNoRetry ==
  [][\A s \in Slots :
       Answered(s) /\ inflight[s].phase = "err" =>
         /\ toast' # ""
         /\ calls' = calls
         /\ \A t \in Slots : inflight'[t].phase # "sent" \/ inflight'[t] = inflight[t]]_vars

\* C6: while there is no authenticated user the container sends no task query
\* and no task insert.
C6_NoUserNoRequest ==
  [][\A s \in Slots : Sent(s) /\ inflight'[s].kind \in {"fetch", "add"} => user # NoUser]_vars

\* addTask was invoked without a user and returned
C6_Witness == last.step = "addNoUser" /\ user = NoUser /\ calls = 0

\* C7: whenever the user is absent and the user-change effect has run, all four
\* columns are empty.
C7_NoUserEmptyColumns == (user = NoUser /\ ~effectPending) => ColumnsEmpty

\* C8: when the provider has a board id and no request is in flight, every task
\* in the columns belongs to the provider's current board.
C8_TasksOfCurrentBoard ==
  (user # NoUser /\ boardId # NoBoard /\ Idle /\ ~effectPending) =>
    \A i \in 1..4 : \A k \in 1..Len(columns[i].tasks) :
      store[ParseInt(columns[i].tasks[k].id)].board = boardId

\* handleDrop of column i runs in this step
Dropped(i) ==
  /\ dataTransfer.active /\ ~dataTransfer'.active
  /\ last'.step = "drop" /\ last'.data = <<i>>

\* C9: handleDrop on a column with a non-empty dragged task id invokes moveTask
\* exactly once, with that id and the column's id; with an empty id it invokes
\* no move; in both cases the column's dragOverIndex is null afterwards.
C9_DropMovesOnce ==
  [][\A i \in 1..4 :
       Dropped(i) =>
         /\ dragOverIndex'[i] = <<>>
         /\ IF dataTransfer.taskId # <<>>
            THEN /\ calls' = calls + 1
                 /\ \E s \in Slots :
                      /\ Sent(s)
                      /\ inflight'[s].kind = "status"
                      /\ toString(inflight'[s].id) = dataTransfer.taskId
                      /\ inflight'[s].status = ColumnIds[i]
                      /\ \A t \in Slots \ {s} : inflight'[t] = inflight[t]
            ELSE /\ calls' = calls
                 /\ inflight' = inflight]_vars

\* a task was dropped on a column that showed an insertion index
C9_Witness ==
  /\ last.step = "drop"
  /\ lastDrop # <<>>
  /\ lastDrop[3] # <<>>
  /\ dragOverIndex[last.data[1]] = <<>>
  /\ \E s \in Slots : inflight[s].kind = "status" /\ toString(inflight[s].id) = lastDrop[1]

\* C10: when a task is dropped on a column while the computed insertion index
\* is i, then after the move succeeds the task is at position i of that
\* column's task list.
C10_DropInsertsAtIndex ==
  (/\ last.step = "statusOk"
   /\ calls = 2
   /\ lastDrop # <<>>
   /\ lastDrop[3] # <<>>) =>
     \E i \in 1..4 :
       /\ columns[i].id = lastDrop[2]
       /\ Len(columns[i].tasks) > lastDrop[3][1]
       /\ columns[i].tasks[lastDrop[3][1] + 1].id = lastDrop[1]

\* C5: after AuthProvider has initialised, the session and user it exposes
\* equal those of the most recent auth event delivered, or the result of the
\* initial getSession when no event has been delivered yet.
C5_SessionFollowsEvents ==
  (isMounted /\ ~authLoading) =>
    IF lastEvent # <<>>
    THEN session = lastEvent[2] /\ user = SessionUser(lastEvent[2])
    ELSE session = getSession.result /\ user = SessionUser(getSession.result)

\* number of cards of a column of n cards whose vertical midpoint is at or above
\* pointer y
CardsAtOrAbove(n, y) == Cardinality({k \in 0..(n - 1) : TaskMiddle2(k) <= 2 * y})

\* C11: the insertion index handleDragOver computes equals the number of cards
\* whose vertical midpoint is at or above the pointer; it lies between 0 and
\* the number of tasks of the column, and is 0 for an empty column.
C11_IndexCountsCardsAbove ==
  last.step = "dragOver" =>
    LET i == last.data[1]
        y == last.data[2]
        n == Len(columns[i].tasks)
    IN /\ dragOverIndex[i] = <<CardsAtOrAbove(n, y)>>
       /\ dragOverIndex[i][1] \in 0..n
       /\ (n = 0 => dragOverIndex[i] = <<0>>)

\* the pointer is between the midpoints of the two cards of a column
C11_Witness ==
  /\ last.step = "dragOver"
  /\ Len(columns[last.data[1]].tasks) = 2
  /\ dragOverIndex[last.data[1]] = <<1>>

\* C12: when deleteTask(id) succeeds, afterwards no column holds a task with
\* that id, and every column holds its other tasks, in the order they had.
C12_DeleteRemovesOnlyThatTask ==
  [][\A s \in Slots :
       Answered(s) /\ inflight[s].kind = "delete" /\ inflight[s].phase = "ok" =>
         /\ \A i \in 1..4 : \A k \in 1..Len(columns'[i].tasks) :
              columns'[i].tasks[k].id # toString(inflight[s].id)
         /\ \A i \in 1..4 :
              /\ columns'[i].id = columns[i].id
              /\ columns'[i].tasks =
                   SelectSeq(columns[i].tasks, LAMBDA t : t.id # toString(inflight[s].id))]_vars

\* a delete succeeded and left another task on the board
C12_Witness == last.step = "deleteOk" /\ ~ColumnsEmpty

ShareOffered == Element.el = "Board" /\ ~boardLoading /\ isOwner

\* C14: once the Board page has loaded the board it displays, it offers the
\* share-board control only if the current user has the owner role in
\* board_members for that board, also after the board id has changed.
C14_ShareOnlyForOwner ==
  (ShareOffered /\ ~PageEffectPending /\ BoardFetchIdle) => Role(user, route[2]) = "owner"

\* C15: while the authentication state is loading AppRoutes renders no route
\* element (neither a page nor a redirect); once it is known, Index is rendered
\* only at "/" with a user and "/" without a user redirects to "/auth"; Auth is
\* rendered only at "/auth" without a user and "/auth" with a user redirects
\* to "/".
C15_RoutesGuarded ==
  /\ authLoading => Element.el \notin PageNames \cup {"Navigate"}
  /\ Element.el = "Index" => (route = <<"/">> /\ user # NoUser)
  /\ Element.el = "Auth" => (route = <<"/auth">> /\ user = NoUser)
  /\ (~authLoading /\ route = <<"/">>) =>
        IF user # NoUser THEN Element.el = "Index"
        ELSE Element = [el |-> "Navigate", to |-> <<"/auth">>]
  /\ (~authLoading /\ route = <<"/auth">>) =>
        IF user = NoUser THEN Element.el = "Auth"
        ELSE Element = [el |-> "Navigate", to |-> <<"/">>]

\* "/" was opened without a user, the redirect was followed and the Auth page
\* is rendered
C15_Witness ==
  /\ last.step = "redirect"
  /\ route = <<"/auth">>
  /\ Element.el = "Auth"
  /\ user = NoUser

\* C16: whatever the starting route and the authentication state, the
\* automatic redirects (AppRoutes' Navigate, the Auth page's navigate('/')
\* when a session exists, the Profile and Board pages' navigate('/auth')
\* without a user) followed while that state stays the same never come back
\* to a route they already left: the chain ends, there is no cycle.
C16_NoRedirectCycle == ~chain.cycle

\* C17: a mutation is applied to the in-memory columns optimistically: in the
\* step that sends its request, before the response, the columns already show
\* the change (the task moved, edited, removed, or one more task), and the
\* response only reconciles them.
C17_OptimisticUpdate ==
  [][\A s \in Slots : Sent(s) =>
       LET req == inflight'[s] IN
       CASE req.kind = "status" -> columns' = MoveToStatus(columns, toString(req.id), req.status)
         [] req.kind = "details" -> columns' = EditTask(columns, toString(req.id), req.title)
         [] req.kind = "delete" -> columns' = RemoveTask(columns, toString(req.id))
         [] req.kind = "add" -> Len(AllTasks(columns')) = Len(AllTasks(columns)) + 1
         [] OTHER -> TRUE]_vars

\* the rows of the current user and board whose stored status is column i's
StoredIn(i) == {n \in Matching(user, boardId) : store[n].status = ColumnIds[i]}

\* column i shows exactly these rows, each of them once
ShowsStored(i) ==
  /\ {ParseInt(t.id) : t \in Range(columns[i].tasks)} = StoredIn(i)
  /\ Len(columns[i].tasks) = Cardinality(StoredIn(i))

\* C18: whenever every request has been answered successfully and handled
\* (none is in flight, the effect has run, no answer was an error), the columns
\* hold exactly the stored tasks of the current user and board, each in the
\* column of its stored status, whatever the interleaving was.
C18_ColumnsMatchStore ==
  (Idle /\ ~effectPending /\ user # NoUser) => \A i \in 1..4 : ShowsStored(i)

\* C19: no task id occurs more than once across the four columns, whatever
\* the order in which the answer of an addTask and the answer of a fetchTasks
\* issued while that addTask was pending are handled.
C19_NoDuplicateIds ==
  LET all == AllTasks(columns)
  IN \A k1, k2 \in 1..Len(all) : all[k1].id = all[k2].id => k1 = k2

\* the fetchTasks calls in flight: sent, or answered and not yet handled
FetchesInFlight == {s \in Slots : inflight[s].kind = "fetch"}

\* C20: the loading flag is true whenever at least one fetchTasks is in flight
\* and false whenever none is, also when two fetches overlap.
C20_LoadingIffFetching == loading = (FetchesInFlight # {})

\* the tasks of the columns that carry this id
Copies(cols, id) == {t \in Range(AllTasks(cols)) : t.id = id}

\* C21: when updateTaskStatus / moveTask(id, s) succeeds on a task present in
\* the columns, the task becomes the last element of column s (also when it
\* was in s already) with its other fields unchanged, the total number of
\* tasks is unchanged, and every other task keeps its column and its order.
C21_StatusMoveFrame ==
  [][\A s \in Slots :
       (/\ Answered(s) /\ inflight[s].kind = "status" /\ inflight[s].phase = "ok"
        /\ Copies(columns, toString(inflight[s].id)) # {}) =>
         LET id == toString(inflight[s].id)
             st == inflight[s].status
         IN /\ Len(AllTasks(columns')) = Len(AllTasks(columns))
            /\ \A i \in 1..4 :
                 /\ columns'[i].id = columns[i].id
                 /\ IF columns[i].id = st
                    THEN \E old \in Copies(columns, id) :
                           columns'[i].tasks =
                             Append(SelectSeq(columns[i].tasks, LAMBDA t : t.id # id),
                                    [old EXCEPT !.status = st])
                    ELSE columns'[i].tasks = SelectSeq(columns[i].tasks, LAMBDA t : t.id # id)]_vars

\* C22: when updateTaskDetails(id, ...) succeeds, only the details (here the
\* title) of the tasks with that id change: every task keeps its column, its
\* position, its status and its id, every task of another id is unchanged,
\* and when no task has that id the columns are unchanged.
C22_DetailsFrame ==
  [][\A s \in Slots :
       Answered(s) /\ inflight[s].kind = "details" /\ inflight[s].phase = "ok" =>
         LET id == toString(inflight[s].id) IN
         /\ \A i \in 1..4 :
              /\ columns'[i].id = columns[i].id
              /\ Len(columns'[i].tasks) = Len(columns[i].tasks)
              /\ \A k \in 1..Len(columns[i].tasks) :
                   LET before == columns[i].tasks[k]
                       after == columns'[i].tasks[k]
                   IN IF before.id = id
                      THEN after = [before EXCEPT !.title = inflight[s].title]
                      ELSE after = before
         /\ (Copies(columns, id) = {} => columns' = columns)]_vars

\* the details of one task were updated while the board showed another task
C22_Witness ==
  /\ last.step = "detailsOk"
  /\ \E t \in Range(AllTasks(columns)) : t.id = toString(last.data[1]) /\ t.title = "t2"
  /\ \E t \in Range(AllTasks(columns)) : t.id # toString(last.data[1]) /\ t.title = "t1"

\* the notifications the AuthProvider raises
AuthToasts == {"Signed in successfully", "Signed out", "Error signing out"}

\* C23: after the AuthProvider has unmounted, no step (a late auth state
\* event, a late getSession result, a failing signOut) changes session, user
\* or loading, and none raises a sign-in, sign-out or sign-out-error
\* notification (a notification raised before the unmount may still be up).
C23_UnmountedIsInert ==
  [][~isMounted =>
       /\ session' = session
       /\ user' = user
       /\ authLoading' = authLoading
       /\ (toast' # toast => toast' \notin AuthToasts)]_vars

\* the provider unmounted before any answer: a sign-in event and a getSession
\* result carrying a session both came late and left the state as it was
C23_Witness ==
  /\ ~isMounted
  /\ lastEvent # <<>>
  /\ lastEvent[1] = "SIGNED_IN"
  /\ getSession.state = "done"
  /\ getSession.result # NoSession
  /\ session = NoSession
  /\ authLoading

\* C24 as stated: the AuthProvider's loading flag is true initially,
\* eventually becomes false, and once false never becomes true again.
C24_LoadingBecomesFalse ==
  /\ authLoading = TRUE
  /\ [][~authLoading => ~authLoading']_vars
  /\ <>(~authLoading)

\* C24, for a provider that stays mounted: the loading flag is true
\* initially, becomes false with the first auth event or the initial
\* getSession result unless the provider has unmounted before either arrives,
\* and once false never becomes true again.
C24_LoadingSettlesWhileMounted ==
  /\ authLoading = TRUE
  /\ [][~authLoading => ~authLoading']_vars
  /\ <>(~authLoading \/ ~isMounted)

\* the initial getSession result arrived before any auth event and ended the
\* loading state of the mounted provider
C24_Witness ==
  /\ ~authLoading
  /\ isMounted
  /\ getSession.state = "done"
  /\ lastEvent = <<>>

====
